---- MODULE Spec2Model ----
(***************************************************************************)
(* Model of scripts/relax_floorplan.py: build_edges and run_layout.        *)
(*                                                                         *)
(* Python floats are IEEE-754 binary floating point numbers: every         *)
(* arithmetic operation rounds its exact result to the nearest value with  *)
(* a fixed number of significant bits (ties to even).  The model keeps     *)
(* that structure with a significand of MantBits bits: a float is a record *)
(* [m, e] standing for m * 2^e with m = 0 or 2^(MantBits-1) <= |m| <       *)
(* 2^MantBits.  Decimal quantities that enter or leave the program (the    *)
(* margin argument, stored coordinates, written coordinates) are integers  *)
(* counted in units of 10^-5.                                              *)
(***************************************************************************)
EXTENDS Integers, Sequences, FiniteSets, TLC

\* ------------------------------------------------------------------------
\* Bounds of the model
\* ------------------------------------------------------------------------
MantBits == 14
MaxNodes == 3
MaxIterations == 2
MaxOdd == 1
MaxListed == 2
MaxLinks == 3
MaxEdges == 2

\* ------------------------------------------------------------------------
\* Floating point arithmetic (round to nearest, ties to even)
\* ------------------------------------------------------------------------
Abs(n) == IF n < 0 THEN -n ELSE n

Sign(n) == IF n < 0 THEN -1 ELSE 1

\* the number of bits of n, 0 <= n < 2^31
BitLen(n) == Cardinality({ b \in 0..30 : 2^b <= n })

Zero == [m |-> 0, e |-> 0]

\* the float sign * q * 2^e, q of at most MantBits bits or 2^MantBits
Pack(sign, q, e) ==
  IF q = 2^MantBits THEN [m |-> sign * 2^(MantBits - 1), e |-> e + 1]
  ELSE [m |-> sign * q, e |-> e]

\* q + r / (2 * half), plus a positive fraction when sticky, to the nearest
\* integer, ties to even
Nearest(q, r, half, sticky) ==
  IF r > half \/ (r = half /\ (sticky \/ q % 2 = 1)) THEN q + 1 ELSE q

\* m * 2^e with the last drop bits of a = |m| rounded away
Shorten(m, a, drop, e, sticky) ==
  IF drop <= 0 THEN [m |-> m * 2^(-drop), e |-> e + drop]
  ELSE Pack(Sign(m),
            Nearest(a \div 2^drop, a % 2^drop, 2^(drop - 1), sticky),
            e + drop)

\* Round the exact value m * 2^e (plus, when sticky, a positive fraction of
\* the last bit of m) to MantBits significant bits.
FRound(m, e, sticky) ==
  IF m = 0 THEN Zero
  ELSE Shorten(m, Abs(m), BitLen(Abs(m)) - MantBits, e, sticky)

FInt(n) == FRound(n, 0, FALSE)

FNeg(x) == [m |-> -x.m, e |-> x.e]

\* hi + lo, where hi has the larger exponent, by d
Aligned(hi, lo, d) ==
  IF d >= MantBits + 2 THEN hi
  ELSE FRound(hi.m * 2^d + lo.m, lo.e, FALSE)

FAdd(x, y) ==
  IF x.m = 0 THEN y
  ELSE IF y.m = 0 THEN x
  ELSE IF x.e >= y.e THEN Aligned(x, y, x.e - y.e)
  ELSE Aligned(y, x, y.e - x.e)

FSub(x, y) == FAdd(x, FNeg(y))

FMul(x, y) == FRound(x.m * y.m, x.e + y.e, FALSE)

\* sign * (num / den) * 2^e
Quotient(sign, num, den, e) ==
  FRound(sign * (num \div den), e, num % den # 0)

\* x / y, y nonzero
FDiv(x, y) ==
  Quotient(Sign(x.m) * Sign(y.m), Abs(x.m) * 2^(MantBits + 1), Abs(y.m),
           x.e - y.e - (MantBits + 1))

RECURSIVE ISqrtFrom(_, _, _)
ISqrtFrom(X, bit, acc) ==
  IF bit = 0 THEN acc
  ELSE IF (acc + bit) * (acc + bit) <= X
       THEN ISqrtFrom(X, bit \div 2, acc + bit)
       ELSE ISqrtFrom(X, bit \div 2, acc)

\* sqrt(X) * 2^e, r the integer part of sqrt(X)
Root(X, r, e) == FRound(IF X > r * r + r THEN r + 1 ELSE r, e, FALSE)

\* sqrt(x) with the significand of x scaled by 2^s, x.e - s even
ScaledRoot(x, s) ==
  Root(x.m * 2^s, ISqrtFrom(x.m * 2^s, 2^(MantBits - 1), 0), (x.e - s) \div 2)

\* math.sqrt of a non-negative float
FSqrt(x) ==
  IF x.m = 0 THEN Zero
  ELSE ScaledRoot(x, IF (x.e - (MantBits - 1)) % 2 = 0
                     THEN MantBits - 1 ELSE MantBits)

FLt(x, y) == FSub(x, y).m < 0

FLe(x, y) == FSub(x, y).m <= 0

FMin(x, y) == IF FLt(y, x) THEN y ELSE x

FMax(x, y) == IF FLt(x, y) THEN y ELSE x

\* The float a decimal literal num/den denotes
Dec(num, den) == FDiv(FInt(num), FInt(den))

\* sign * a / 2^sh to the nearest integer, ties to even
Units(sign, a, sh) ==
  IF sh <= 0 THEN sign * a * 2^(-sh)
  ELSE IF sh > 30 THEN 0
  ELSE sign * Nearest(a \div 2^sh, a % 2^sh, 2^(sh - 1), FALSE)

\* round(x, 5), as a count of units of 10^-5 (10^5 = 3125 * 2^5)
Round5(x) == Units(Sign(x.m), Abs(x.m) * 3125, -(x.e + 5))

\* ------------------------------------------------------------------------
\* Constants of the program
\* ------------------------------------------------------------------------
Half == Dec(5, 10)

One == FInt(1)

Two == FInt(2)

Ten == FInt(10)

\* random.Random(42): the first draws of rng.random(), in units of 10^-6
Random42 == << 639427, 25011, 275029, 223211, 736471, 676699, 892180, 86939,
               421922, 29797, 218638, 505355, 26536, 198838, 649884, 544941,
               220441, 589266, 809430, 6499 >>

Draws == [n \in 1..Len(Random42) |-> Dec(Random42[n], 1000000)]

\* the n-th value rng.random() returns
Random(n) == Draws[n]

\* ------------------------------------------------------------------------
\* Node records
\*   id          : a string
\*   position    : [kind, x, y]; kind "absent" (no such key), "none" (null),
\*                 "dict" (a mapping; x and y are its entries), "str" (a
\*                 non-empty string)
\*   coordinate  : [kind, v]; kind "missing" (no such key), "num" (a number,
\*                 v in units of 10^-5), "none" (null), "str" (a non-numeric
\*                 string)
\*   connections : a sequence of entries [kind, v]; kind "str" (the string
\*                 v) or "int" (a number)
\*   title       : a field of the richer schema the layout does not use
\* ------------------------------------------------------------------------
Ids == << "a", "b", "c", "d", "e" >>

\* position of an identifier in lexicographic order ("z" is no node's id)
LexRank(id) ==
  CASE id = "a" -> 1 [] id = "b" -> 2 [] id = "c" -> 3 [] id = "d" -> 4
    [] id = "e" -> 5 [] OTHER -> 26

Missing == [kind |-> "missing", v |-> 0]

Num(v) == [kind |-> "num", v |-> v]

Str(s) == [kind |-> "str", v |-> s]

PosOf(kind, x, y) == [kind |-> kind, x |-> x, y |-> y]

EmptyDict == PosOf("dict", Missing, Missing)

NodeIds(nodes) == [n \in 1..Len(nodes) |-> nodes[n].id]

\* The element of a set of one element.  Only({ F(x) : x \in {e} }) is F(e)
\* with e computed first, the way a statement computes a local before the
\* statements that use it.
Only(S) == CHOOSE v \in S : TRUE

\* ------------------------------------------------------------------------
\* build_edges
\* ------------------------------------------------------------------------
\* the pair as written, not sorted
UnsortedPair(a, b) == << a, b >>

\* tuple(sorted((a, b)))
SortedPair(a, b) == IF LexRank(b) < LexRank(a) THEN << b, a >> ELSE << a, b >>

\* the inner loop over node.get("connections", []), from entry t on
RECURSIVE AddTargets(_, _, _, _)
AddTargets(edges, id, connections, t) ==
  IF t > Len(connections) THEN edges
  ELSE IF connections[t].kind # "str"
       THEN AddTargets(edges, id, connections, t + 1)
       ELSE Only({ AddTargets(added, id, connections, t + 1) :
                     added \in { edges \cup {SortedPair(id, connections[t].v)} } })

\* the outer loop over nodes, from node n on
RECURSIVE AddNodes(_, _, _)
AddNodes(edges, nodes, n) ==
  IF n > Len(nodes) THEN edges
  ELSE Only({ AddNodes(added, nodes, n + 1) :
                added \in { AddTargets(edges, nodes[n].id,
                                       nodes[n].connections, 1) } })

build_edges(nodes) == AddNodes({}, nodes, 1)

\* ------------------------------------------------------------------------
\* run_layout: configuration and initializer
\* ------------------------------------------------------------------------
\* the margin argument, given in units of 10^-5, as a float
MarginFloat(margin) == Dec(margin, 100000)

\* width = height = 1 - 2 * margin
Width(margin) ==
  Only({ FSub(One, FMul(Two, m)) : m \in { MarginFloat(margin) } })

\* width < 0 or height < 0
CollapsedStrictly(width, height) == FLt(width, Zero) \/ FLt(height, Zero)

\* width <= 0 or height <= 0
Collapsed(width, height) == FLe(width, Zero) \/ FLe(height, Zero)

\* node.get("position") or {}
PositionOrEmpty(node) ==
  IF node.position.kind \in {"absent", "none"} THEN EmptyDict
  ELSE IF node.position.kind = "dict"
          /\ node.position.x.kind = "missing"
          /\ node.position.y.kind = "missing"
       THEN EmptyDict
  ELSE node.position

\* float(c), c the entry pos.get(axis, 0.5) found
FloatOf(c) ==
  CASE c.kind = "missing" -> [raised |-> "", val |-> Half]
    [] c.kind = "num" -> [raised |-> "", val |-> Dec(c.v, 100000)]
    [] c.kind = "none" -> [raised |-> "TypeError", val |-> Zero]
    [] OTHER -> [raised |-> "ValueError", val |-> Zero]

\* float(pos.get(axis, 0.5)): the value, or the exception raised
ReadCoord(pos, axis) ==
  IF pos.kind # "dict" THEN [raised |-> "AttributeError", val |-> Zero]
  ELSE FloatOf(IF axis = "x" THEN pos.x ELSE pos.y)

JitterScale == Dec(5, 100)

\* (rng.random() - 0.5) * size * 0.05
Jitter(r, size) ==
  Only({ FMul(FMul(centred, size), JitterScale) :
           centred \in { FSub(r, Half) } })

\* (float(pos.get(axis, 0.5)) - 0.5) * size + jitter
StartCoord(c, size, jitter) ==
  Only({ FAdd(FMul(centred, size), jitter) : centred \in { FSub(c, Half) } })

\* the list assigned to positions[node["id"]], x and y the coordinates read:
\* the exception raised, or the list
StartFrom(x, y, width, height, jitter_x, jitter_y) ==
  IF x.raised # "" THEN [raised |-> x.raised, pos |-> << >>]
  ELSE IF y.raised # "" THEN [raised |-> y.raised, pos |-> << >>]
  ELSE [raised |-> "",
        pos |-> << StartCoord(x.val, width, jitter_x),
                   StartCoord(y.val, height, jitter_y) >>]

\* the body of the initializer loop for a node, drawn values number
\* drawn + 1 and drawn + 2
Start(node, drawn, width, height) ==
  Only({ StartFrom(x, y, width, height, jitter_x, jitter_y) :
           x \in { ReadCoord(PositionOrEmpty(node), "x") },
           y \in { ReadCoord(PositionOrEmpty(node), "y") },
           jitter_x \in { Jitter(Random(drawn + 1), width) },
           jitter_y \in { Jitter(Random(drawn + 2), height) } })

\* k = math.sqrt((width * height) / max(len(nodes), 1))
SpringLength(width, height, count) ==
  Only({ FSqrt(FDiv(area, FInt(IF count > 1 THEN count ELSE 1))) :
           area \in { FMul(width, height) } })

\* temperature = max(width, height) / 10
StartTemperature(width, height) == FDiv(FMax(width, height), Ten)

GravityScale == Dec(1, 10)

\* gravity = k * 0.1
Gravity(k) == FMul(k, GravityScale)

\* ------------------------------------------------------------------------
\* run_layout: one round of the relaxation loop
\* positions and disp map a node id to << x, y >>
\* ------------------------------------------------------------------------
Epsilon9 == Dec(1, 1000000000)

\* << dx, dy >>
Delta(source_pos, target_pos) ==
  << FSub(source_pos[1], target_pos[1]), FSub(source_pos[2], target_pos[2]) >>

\* dx * dx + dy * dy
SumSquares(d) == FAdd(FMul(d[1], d[1]), FMul(d[2], d[2]))

\* << fx, fy >> = << (dx / dist) * force, (dy / dist) * force >>
Along(d, dist, force) ==
  << FMul(FDiv(d[1], dist), force), FMul(FDiv(d[2], dist), force) >>

\* disp[id][0] += fx; disp[id][1] += fy
Raise(disp, id, f) ==
  [disp EXCEPT ![id] = << FAdd(@[1], f[1]), FAdd(@[2], f[2]) >>]

\* disp[id][0] -= fx; disp[id][1] -= fy
Lower(disp, id, f) ==
  [disp EXCEPT ![id] = << FSub(@[1], f[1]), FSub(@[2], f[2]) >>]

\* force = (k * k) / dist, then << fx, fy >>
RepelAt(d, dist, k) == Along(d, dist, FDiv(FMul(k, k), dist))

\* dist = math.sqrt(dx * dx + dy * dy + 1e-9), then << fx, fy >>
RepelForce(d, k) ==
  Only({ RepelAt(d, dist, k) :
           dist \in { FSqrt(FAdd(SumSquares(d), Epsilon9)) } })

\* disp[source_id] += f; disp[target_id] -= f
PushApart(disp, s, t, f) == Lower(Raise(disp, s, f), t, f)

\* repulsion between the nodes s and t
RepelPair(disp, positions, k, s, t) ==
  Only({ PushApart(disp, s, t, f) :
           f \in { RepelForce(d, k) :
                     d \in { Delta(positions[s], positions[t]) } } })

\* the pair loops, from the pair (ids[i], ids[j]) on
RECURSIVE Repulsion(_, _, _, _, _, _)
Repulsion(disp, positions, k, ids, i, j) ==
  IF i > Len(ids) THEN disp
  ELSE IF j > Len(ids) THEN Repulsion(disp, positions, k, ids, i + 1, i + 2)
  ELSE Only({ Repulsion(pushed, positions, k, ids, i, j + 1) :
                pushed \in { RepelPair(disp, positions, k, ids[i], ids[j]) } })

\* positions[source_id] or positions[target_id] raises KeyError
DanglingEdge(positions, edge) ==
  edge[1] \notin DOMAIN positions \/ edge[2] \notin DOMAIN positions

\* force = (dist * dist) / k, then << fx, fy >>
AttractAt(d, dist, k) == Along(d, dist, FDiv(FMul(dist, dist), k))

\* dist = math.sqrt(dx * dx + dy * dy) + 1e-9, then << fx, fy >>
AttractForce(d, k) ==
  Only({ AttractAt(d, dist, k) :
           dist \in { FAdd(FSqrt(SumSquares(d)), Epsilon9) } })

\* disp[source_id] -= f; disp[target_id] += f
PullTogether(disp, s, t, f) == Raise(Lower(disp, s, f), t, f)

\* attraction along one edge whose endpoints are known
AttractEdge(disp, positions, k, edge) ==
  Only({ PullTogether(disp, edge[1], edge[2], f) :
           f \in { AttractForce(d, k) :
                     d \in { Delta(positions[edge[1]], positions[edge[2]]) } } })

\* the loop over the edges in the order the set yields them, from edge n on
RECURSIVE Attraction(_, _, _, _, _)
Attraction(disp, positions, k, edges, n) ==
  IF n > Len(edges) THEN [raised |-> "", disp |-> disp]
  ELSE IF DanglingEdge(positions, edges[n])
       THEN [raised |-> "KeyError", disp |-> disp]
       ELSE Only({ Attraction(pulled, positions, k, edges, n + 1) :
                     pulled \in { AttractEdge(disp, positions, k, edges[n]) } })

\* disp[node_id] -= gravity * pos
Pull(disp, positions, gravity) ==
  [id \in DOMAIN disp |->
     << FSub(disp[id][1], FMul(gravity, positions[id][1])),
        FSub(disp[id][2], FMul(gravity, positions[id][2])) >>]

\* min(half, max(-half, c))
Clamp(c, half) == FMin(half, FMax(FNeg(half), c))

\* positions[node_id] += (d / disp_len) * limit
Step(pos, d, disp_len, limit) ==
  << FAdd(pos[1], FMul(FDiv(d[1], disp_len), limit)),
     FAdd(pos[2], FMul(FDiv(d[2], disp_len), limit)) >>

\* if disp_len > 0: the step limited by the temperature
Limited(pos, d, disp_len, temperature) ==
  IF FLt(Zero, disp_len)
  THEN Only({ Step(pos, d, disp_len, limit) :
                limit \in { FMin(disp_len, temperature) } })
  ELSE pos

\* both coordinates clamped
ClampBoth(pos, half_width, half_height) ==
  << Clamp(pos[1], half_width), Clamp(pos[2], half_height) >>

\* the displacement of one node, limited by the temperature, then clamped
Move(pos, d, temperature, half_width, half_height) ==
  Only({ ClampBoth(moved, half_width, half_height) :
           moved \in { Limited(pos, d, disp_len, temperature) :
                         disp_len \in { FSqrt(SumSquares(d)) } } })

\* temperature *= 0.9
CoolFaster(temperature) == FMul(temperature, Dec(9, 10))

CoolingRate == Dec(95, 100)

\* temperature *= 0.95
Cool(temperature) == FMul(temperature, CoolingRate)

FreezingPoint == Dec(1, 10000)

\* temperature < 1e-4
Frozen(temperature) == FLt(temperature, FreezingPoint)

\* the loop over disp.items()
Displace(positions, disp, temperature, half_width, half_height) ==
  [id \in DOMAIN positions |->
     Move(positions[id], disp[id], temperature, half_width, half_height)]

\* the last two loops of a round, attracted the outcome of the edge loop
Settle(attracted, positions, gravity, temperature, half_width, half_height) ==
  IF attracted.raised # ""
  THEN [raised |-> attracted.raised, positions |-> positions]
  ELSE [raised |-> "",
        positions |->
          Only({ Displace(positions, disp, temperature, half_width,
                          half_height) :
                   disp \in { Pull(attracted.disp, positions, gravity) } })]

\* the body of the loop up to the clamp, one loop after the other: the
\* exception raised, or the new positions
Relax(positions, ids, edges, k, gravity, temperature, width, height) ==
  Only({ Settle(attracted, positions, gravity, temperature,
                half_width, half_height) :
           half_width \in { FDiv(width, Two) },
           half_height \in { FDiv(height, Two) },
           attracted \in
             { Attraction(repelled, positions, k, edges, 1) :
                 repelled \in
                   { Repulsion([id \in DOMAIN positions |-> << Zero, Zero >>],
                               positions, k, ids, 1, 2) } } })

\* ------------------------------------------------------------------------
\* run_layout: normalizer
\* ------------------------------------------------------------------------
EpsilonScale == Dec(1, 1000)

\* epsilon = min(width, height) * 1e-3
NormEpsilon(width, height) == FMul(FMin(width, height), EpsilonScale)

\* pos[axis] += (rng.random() - 0.5) * epsilon
Nudge(c, r, epsilon) == FAdd(c, FMul(FSub(r, Half), epsilon))

\* pos after both additions, drawn values number drawn + 1 and drawn + 2
Nudged(pos, drawn, epsilon) ==
  << Nudge(pos[1], Random(drawn + 1), epsilon),
     Nudge(pos[2], Random(drawn + 2), epsilon) >>

\* round(margin + ((c / size) + 0.5) * size, 5)
Publish(c, size, margin) ==
  Round5(FAdd(MarginFloat(margin), FMul(FAdd(FDiv(c, size), Half), size)))

\* the assignment replacing the node's connections as well
StoreAndUnlink(nodes, n, x, y) ==
  [nodes EXCEPT ![n].position = PosOf("dict", Num(x), Num(y)),
                ![n].connections = << >>]

\* node["position"] = {"x": x, "y": y} for the n-th node of the list
Store(nodes, n, x, y) ==
  [nodes EXCEPT ![n].position = PosOf("dict", Num(x), Num(y))]

\* ------------------------------------------------------------------------
\* State
\* ------------------------------------------------------------------------
VARIABLES
  nodes,        \* the node list the caller passed, as it is now
  given,        \* the node list as it was on entry
  iterations,   \* the iterations argument
  margin,       \* the margin argument, in units of 10^-5
  pc,           \* where run_layout is: "entry", "init", "loop", "normalize",
                \* "done" (returned), "failed" (left by an exception);
                \* "caller" when build_edges is called on its own
  cursor,       \* index of the node the current for-loop over nodes is at
  positions,    \* the positions dict
  rng,          \* number of values drawn from the generator so far
  edges,        \* the edge set, as the sequence its iteration yields
  temperature,  \* the temperature local
  rounds,       \* number of completed rounds of the relaxation loop
  raised,       \* the exception run_layout was left by, "" if none
  writes,       \* for each node, how often its position was assigned
  built,        \* the sets build_edges returned to a direct caller
  width,        \* the width local
  height,       \* the height local
  k,            \* the k local
  gravity,      \* the gravity local
  twin          \* the positions dict of a second run on the same arguments,
                \* in which iterating over the edge set yields sorted order

vars == << nodes, given, iterations, margin, pc, cursor, positions, rng,
           edges, temperature, rounds, raised, writes, built, width, height,
           k, gravity, twin >>

\* the variables a step of the layout never assigns
args == << given, iterations, margin, built >>

\* ------------------------------------------------------------------------
\* Inputs
\* ------------------------------------------------------------------------
Int7 == [kind |-> "int", v |-> "7"]

Absent == PosOf("absent", Missing, Missing)

\* no position, and a position on the right edge that leaves y to its default
PlainPositions == { Absent, PosOf("dict", Num(100000), Missing) }

OddPositions ==
  { PosOf("none", Missing, Missing),
    PosOf("dict", [kind |-> "none", v |-> 0], Num(50000)),
    PosOf("dict", Num(0), Str("abc")),
    PosOf("str", Missing, Missing) }

\* the ids of the other nodes of a list of count nodes, as strings
RECURSIVE Others(_, _, _)
Others(n, count, from) ==
  IF from > count THEN << >>
  ELSE IF from = n THEN Others(n, count, from + 1)
  ELSE << Str(Ids[from]) >> \o Others(n, count, from + 1)

PlainConnections(n, count) == { << >>, Others(n, count, 1) }

OddConnections(n) == { << Str("z") >>, << Int7, Str(Ids[n]) >> }

Node(n, position, connections) ==
  [id |-> Ids[n], position |-> position, connections |-> connections,
   title |-> "room"]

PlainNodes(n, count) ==
  { Node(n, p, c) : p \in PlainPositions, c \in PlainConnections(n, count) }

\* a node with no data but its id
Bare(n) == Node(n, Absent, << >>)

\* nodes with a malformed position or a malformed connections list
OddNodes(n) ==
  { Node(n, p, << >>) : p \in OddPositions }
    \cup { Node(n, Absent, c) : c \in OddConnections(n) }

OddCount(l) == Cardinality({ n \in 1..Len(l) : l[n] \in OddNodes(n) })

\* the first len nodes of the lists of count well-formed nodes
RECURSIVE PlainPrefixes(_, _)
PlainPrefixes(count, len) ==
  IF len = 0 THEN { << >> }
  ELSE { Append(l, node) : l \in PlainPrefixes(count, len - 1),
                           node \in PlainNodes(len, count) }

\* the lists of count well-formed nodes that describe at most MaxEdges edges
PlainLists(count) ==
  { l \in PlainPrefixes(count, count) :
      Cardinality(build_edges(l)) <= MaxEdges }

\* the lists of len nodes of which at most MaxOdd are malformed, the others
\* bare
RECURSIVE OddPrefixes(_)
OddPrefixes(len) ==
  IF len = 0 THEN { << >> }
  ELSE { l \in { Append(shorter, node) :
                   shorter \in OddPrefixes(len - 1),
                   node \in OddNodes(len) \cup { Bare(len) } } :
           OddCount(l) <= MaxOdd }

\* the lists of count nodes of which at least one is malformed
OddLists(count) == { l \in OddPrefixes(count) : OddCount(l) >= 1 }

\* the list of count bare nodes
BareList(count) == [n \in 1..count |-> Bare(n)]

NodeLists ==
  UNION { PlainLists(count) \cup OddLists(count) : count \in 0..MaxNodes }

\* --margin: default=0.2
DefaultMargin == 20000

Margins == { DefaultMargin, 49000, 49950, 50000, 60000 }

\* every order in which iterating over the set S can yield its elements
Orders(S) ==
  { o \in [1..Cardinality(S) -> S] :
      \A a, b \in 1..Cardinality(S) : a # b => o[a] # o[b] }

\* lexicographic order of sorted pairs
PairBefore(e, f) ==
  \/ LexRank(e[1]) < LexRank(f[1])
  \/ e[1] = f[1] /\ LexRank(e[2]) < LexRank(f[2])

\* the order that yields the elements of S sorted
SortedOrder(S) ==
  CHOOSE o \in Orders(S) :
    \A a, b \in 1..Cardinality(S) : a < b => PairBefore(o[a], o[b])

Init ==
  /\ nodes \in NodeLists
  /\ given = nodes
  /\ iterations \in 0..MaxIterations
  /\ margin \in Margins
  /\ margin = DefaultMargin \/ nodes = BareList(Len(nodes))
  /\ pc = "entry"
  /\ cursor = 0
  /\ positions = << >>
  /\ rng = 0
  /\ edges = << >>
  /\ temperature = Zero
  /\ rounds = 0
  /\ raised = ""
  /\ writes = [n \in 1..Len(nodes) |-> 0]
  /\ built = << >>
  /\ width = Zero
  /\ height = Zero
  /\ k = Zero
  /\ gravity = Zero
  /\ twin = << >>

\* ------------------------------------------------------------------------
\* run_layout, step by step
\* ------------------------------------------------------------------------
\* lines 35-40: the configuration check
CheckMargin ==
  /\ pc = "entry"
  /\ width' = Width(margin)
  /\ height' = width'
  /\ IF Collapsed(width', height')
     THEN pc' = "failed" /\ raised' = "SystemExit" /\ cursor' = cursor
     ELSE pc' = "init" /\ raised' = raised /\ cursor' = 1
  /\ UNCHANGED << args, nodes, positions, rng, edges, temperature, rounds,
                  writes, k, gravity, twin >>

\* lines 41-48: one pass of the initializer loop
InitNode ==
  /\ pc = "init"
  /\ cursor <= Len(nodes)
  /\ \E start \in { Start(nodes[cursor], rng, width, height) } :
       IF start.raised # ""
       THEN /\ pc' = "failed"
            /\ raised' = start.raised
            /\ UNCHANGED << positions, twin, cursor >>
       ELSE /\ positions' =
                 [id \in DOMAIN positions \cup {nodes[cursor].id} |->
                    IF id = nodes[cursor].id THEN start.pos
                    ELSE positions[id]]
            /\ twin' =
                 [id \in DOMAIN twin \cup {nodes[cursor].id} |->
                    IF id = nodes[cursor].id THEN start.pos ELSE twin[id]]
            /\ cursor' = cursor + 1
            /\ UNCHANGED << pc, raised >>
  /\ rng' = rng + 2
  /\ UNCHANGED << args, nodes, edges, temperature, rounds, writes, width,
                  height, k, gravity >>

\* lines 50-53: the edge set and the parameters of the loop
Prepare ==
  /\ pc = "init"
  /\ cursor > Len(nodes)
  /\ edges' \in Orders(build_edges(nodes))
  /\ k' = SpringLength(width, height, Len(nodes))
  /\ temperature' = StartTemperature(width, height)
  /\ gravity' = Gravity(k')
  /\ pc' = "loop"
  /\ UNCHANGED << args, nodes, cursor, positions, rng, rounds, raised,
                  writes, width, height, twin >>

\* lines 55-106: one round of the loop
Round ==
  /\ pc = "loop"
  /\ rounds < iterations
  /\ \E relaxed \in { Relax(positions, NodeIds(nodes), edges, k, gravity,
                            temperature, width, height) } :
       IF relaxed.raised # ""
       THEN /\ pc' = "failed"
            /\ raised' = relaxed.raised
            /\ UNCHANGED << positions, twin, temperature, rounds, cursor >>
       ELSE /\ positions' = relaxed.positions
            /\ twin' = Relax(twin, NodeIds(nodes),
                             SortedOrder(build_edges(nodes)), k, gravity,
                             temperature, width, height).positions
            /\ temperature' = Cool(temperature)
            /\ rounds' = rounds + 1
            /\ IF Frozen(temperature')
               THEN pc' = "normalize" /\ cursor' = 1
               ELSE pc' = "loop" /\ cursor' = cursor
            /\ raised' = raised
  /\ UNCHANGED << args, nodes, rng, edges, writes, width, height, k,
                  gravity >>

\* line 55: range(iterations) is exhausted
LoopEnd ==
  /\ pc = "loop"
  /\ rounds >= iterations
  /\ pc' = "normalize"
  /\ cursor' = 1
  /\ UNCHANGED << args, nodes, positions, rng, edges, temperature, rounds,
                  raised, writes, width, height, k, gravity, twin >>

\* lines 108-118: one pass of the normalizer loop
NormalizeNode ==
  /\ pc = "normalize"
  /\ cursor <= Len(nodes)
  /\ \E pos \in { Nudged(positions[nodes[cursor].id], rng,
                         NormEpsilon(width, height)) } :
       /\ positions' = [positions EXCEPT ![nodes[cursor].id] = pos]
       /\ nodes' = Store(nodes, cursor, Publish(pos[1], width, margin),
                         Publish(pos[2], height, margin))
  /\ twin' = [twin EXCEPT ![nodes[cursor].id] =
                Nudged(@, rng, NormEpsilon(width, height))]
  /\ rng' = rng + 2
  /\ writes' = [writes EXCEPT ![cursor] = @ + 1]
  /\ cursor' = cursor + 1
  /\ UNCHANGED << args, pc, edges, temperature, rounds, raised, width,
                  height, k, gravity >>

\* the normalizer loop is exhausted: run_layout returns
Return ==
  /\ pc = "normalize"
  /\ cursor > Len(nodes)
  /\ pc' = "done"
  /\ UNCHANGED << args, nodes, cursor, positions, rng, edges, temperature,
                  rounds, raised, writes, width, height, k, gravity, twin >>

Next ==
  \/ CheckMargin
  \/ InitNode
  \/ Prepare
  \/ Round
  \/ LoopEnd
  \/ NormalizeNode
  \/ Return

Spec == Init /\ [][Next]_vars

\* ------------------------------------------------------------------------
\* build_edges called on its own, twice on the same list
\* ------------------------------------------------------------------------
\* what a connections list of a list of count nodes can hold: ids of the
\* list, an id of no node, a non-string
Entries(count) == { Str(Ids[n]) : n \in 1..count } \cup { Str("z"), Int7 }

\* the connections lists of len entries
RECURSIVE ConnectionLists(_, _)
ConnectionLists(count, len) ==
  IF len = 0 THEN { << >> }
  ELSE { Append(c, e) : c \in ConnectionLists(count, len - 1),
                        e \in Entries(count) }

\* the nodes n..count of the lists of count nodes whose connections lists
\* hold at most left entries in all
RECURSIVE ListedFrom(_, _, _)
ListedFrom(n, count, left) ==
  IF n > count THEN { << >> }
  ELSE UNION { { << Node(n, Absent, c) >> \o rest :
                   c \in ConnectionLists(count, len),
                   rest \in ListedFrom(n + 1, count, left - len) } :
               len \in 0..left }

\* the lists of at most most nodes
ListedNodeLists(most) ==
  UNION { ListedFrom(1, count, MaxLinks) : count \in 0..most }

InitCaller ==
  /\ nodes \in ListedNodeLists(MaxListed)
  /\ given = nodes
  /\ iterations = 0
  /\ margin = DefaultMargin
  /\ pc = "caller"
  /\ cursor = 0
  /\ positions = << >>
  /\ rng = 0
  /\ edges = << >>
  /\ temperature = Zero
  /\ rounds = 0
  /\ raised = ""
  /\ writes = [n \in 1..Len(nodes) |-> 0]
  /\ built = << >>
  /\ width = Zero
  /\ height = Zero
  /\ k = Zero
  /\ gravity = Zero
  /\ twin = << >>

\* lines 23-31: one call of build_edges(nodes)
CallBuildEdges ==
  /\ pc = "caller"
  /\ Len(built) < 2
  /\ built' = Append(built, build_edges(nodes))
  /\ UNCHANGED << nodes, given, iterations, margin, pc, cursor, positions,
                  rng, edges, temperature, rounds, raised, writes, width,
                  height, k, gravity, twin >>

NextCaller == CallBuildEdges

SpecEdges == InitCaller /\ [][NextCaller]_vars

\* ------------------------------------------------------------------------
\* Properties of build_edges
\* ------------------------------------------------------------------------
AllIds == { Ids[n] : n \in 1..Len(Ids) } \cup { "z" }

\* the string entries of the connections of the node l[n]
Targets(l, n) ==
  { l[n].connections[t].v :
      t \in { u \in 1..Len(l[n].connections) : l[n].connections[u].kind = "str" } }

\* the unordered pairs {id, t} with t a string entry of the connections of
\* the node id, each as the one tuple with its endpoints in sorted order
Corridors(l) ==
  { e \in AllIds \X AllIds :
      /\ LexRank(e[1]) <= LexRank(e[2])
      /\ \E n \in 1..Len(l) :
           \E t \in Targets(l, n) : {e[1], e[2]} = {l[n].id, t} }

\* C6: every call of build_edges returns exactly the set of unordered pairs
\* {id, t}, t a string entry of the connections of node id, each once with
\* sorted endpoints; it leaves the list as it was and a second call on the
\* same list returns the same set.
C6_EdgeSet ==
  pc = "caller" =>
    /\ \A c \in 1..Len(built) : built[c] = Corridors(given)
    /\ nodes = given
    /\ Len(built) = 2 => built[1] = built[2]

\* a link listed by both endpoints, next to a non-string entry, built twice
C6_Witness ==
  /\ pc = "caller"
  /\ Len(built) = 2
  /\ Len(given) = 2
  /\ given[1].connections = << Str("b"), Int7 >>
  /\ given[2].connections = << Str("a") >>
  /\ built[2] = { << "a", "b" >> }

\* C7: no edge build_edges returns joins a node to itself.
C7_NoSelfLoop ==
  \A c \in 1..Len(built) : \A e \in built[c] : e[1] # e[2]

\* ------------------------------------------------------------------------
\* Properties of run_layout
\* ------------------------------------------------------------------------
Written(node) ==
  /\ node.position.kind = "dict"
  /\ node.position.x.kind = "num"
  /\ node.position.y.kind = "num"

\* a written coordinate, in units of 10^-5, is inside [margin, 1 - margin]
\* up to one unit
InsideMargins(v) == margin - 1 <= v /\ v <= 100000 - margin + 1

\* C1: after a normal return every written coordinate is inside
\* [margin, 1 - margin], up to the rounding precision of 10^-5.
C1_OutputInsideMargins ==
  pc = "done" =>
    \A n \in 1..Len(nodes) :
      /\ InsideMargins(nodes[n].position.x.v)
      /\ InsideMargins(nodes[n].position.y.v)

InsideBox(pos) ==
  /\ FLe(FNeg(FDiv(width, Two)), pos[1])
  /\ FLe(pos[1], FDiv(width, Two))
  /\ FLe(FNeg(FDiv(height, Two)), pos[2])
  /\ FLe(pos[2], FDiv(height, Two))

\* C2: from the end of the initializer to the start of the normalizer every
\* internal position is inside [-W/2, W/2] x [-H/2, H/2].
C2_InternalInsideBox ==
  (\/ pc = "init" /\ cursor > Len(nodes)
   \/ pc = "loop"
   \/ pc = "normalize" /\ cursor = 1)
  => \A id \in DOMAIN positions : InsideBox(positions[id])

\* C3: with margin >= 0.5 run_layout is left by SystemExit before anything
\* else happened: no draw, no position, no round, the node list untouched;
\* with margin = 0.49 the configuration check does not fail.
C3_MarginCheck ==
  /\ (margin >= 50000 /\ pc # "entry") =>
       /\ pc = "failed"
       /\ raised = "SystemExit"
       /\ rng = 0
       /\ positions = << >>
       /\ edges = << >>
       /\ rounds = 0
       /\ nodes = given
       /\ \A n \in 1..Len(nodes) : writes[n] = 0
  /\ margin = 49000 => raised # "SystemExit"

C3_Witness ==
  /\ margin = 50000
  /\ pc = "failed"
  /\ raised = "SystemExit"
  /\ Len(nodes) >= 2

\* some connections list names a string that is no node's id
HasDangling(l) ==
  \E n \in 1..Len(l) : \E t \in Targets(l, n) :
    \A other \in 1..Len(l) : l[other].id # t

\* C4: when a connections list names an unknown identifier, run_layout never
\* returns normally and no position is overwritten, whatever the budget.
C4_DanglingFails ==
  HasDangling(given) => pc # "done" /\ nodes = given

\* C5: malformed position data never raises: the run is never left by an
\* exception of reading a position.
C5_MalformedRecovered ==
  raised \notin { "AttributeError", "TypeError", "ValueError" }

\* the positions after the initializer: node n gets draws 2n-1 and 2n
\* C8: a run writes the positions every other run on the same arguments
\* writes, in particular the run that traverses the edge set in sorted order.
C8_Deterministic ==
  pc = "done" =>
    \A n \in 1..Len(nodes) :
      nodes[n].position =
        PosOf("dict", Num(Publish(twin[nodes[n].id][1], width, margin)),
              Num(Publish(twin[nodes[n].id][2], height, margin)))

\* C9: a run changes nothing but position fields, and a normal run has
\* assigned every node's position exactly once, as a mapping of x and y.
C9_Frame ==
  /\ Len(nodes) = Len(given)
  /\ \A n \in 1..Len(nodes) :
       /\ nodes[n].id = given[n].id
       /\ nodes[n].connections = given[n].connections
       /\ nodes[n].title = given[n].title
       /\ DOMAIN nodes[n] = DOMAIN given[n]
       /\ writes[n] = 0 => nodes[n] = given[n]
       /\ pc = "done" => writes[n] = 1 /\ Written(nodes[n])

C9_Witness ==
  /\ pc = "done"
  /\ Len(nodes) >= 2
  /\ given[1].connections # << >>
  /\ given[2].position.kind = "absent"
  /\ rounds >= 1

\* temperature after n completed rounds
RECURSIVE CooledAfter(_)
CooledAfter(n) ==
  IF n = 0
  THEN Only({ FDiv(FMax(w, w), Ten) : w \in { Width(margin) } })
  ELSE Only({ FMul(t, rate) :
                t \in { CooledAfter(n - 1) }, rate \in { Dec(95, 100) } })

\* min(iterations, least n >= 1 with CooledAfter(n) < 1e-4)
ScheduledRounds ==
  LET frozen == { n \in 1..iterations : FLt(CooledAfter(n), Dec(1, 10000)) }
  IN  IF frozen = {} THEN iterations
      ELSE CHOOSE n \in frozen : \A m \in frozen : n <= m

\* C10: the loop follows the annealing schedule: the temperature starts at
\* max(W,H)/10 and is multiplied by 0.95 in every completed round; no round
\* runs beyond the budget (the loop terminates within iterations rounds) or
\* after a round that cooled the temperature below 1e-4; the loop is left
\* with min(iterations, least n >= 1 with max(W,H)/10 * 0.95^n < 1e-4)
\* completed rounds, and the normalizer then runs once over the nodes.
C10_Annealing ==
  /\ rounds <= iterations
  /\ pc = "loop" =>
       /\ temperature = CooledAfter(rounds)
       /\ \A n \in 1..rounds : ~FLt(CooledAfter(n), Dec(1, 10000))
  /\ pc \in { "normalize", "done" } =>
       /\ rounds = ScheduledRounds
       /\ temperature = CooledAfter(rounds)
       /\ rng = 2 * Len(nodes) + 2 * (cursor - 1)
       /\ \A n \in 1..Len(nodes) : writes[n] = IF n < cursor THEN 1 ELSE 0
  /\ pc = "done" => cursor = Len(nodes) + 1

\* the loop was left by the temperature test with budget remaining
C10_Witness ==
  /\ pc = "done"
  /\ rounds >= 1
  /\ rounds < iterations
  /\ FLt(temperature, Dec(1, 10000))
  /\ Len(nodes) >= 2

====
